---- MODULE Spec2Model ----
(***************************************************************************)
(* Dueli live-competition runtime: the Challenge lifecycle, the rating     *)
(* aggregation and the revenue distribution, as the Express handlers of    *)
(* controllers/challenge.controller.js, controllers/rating.controller.js,  *)
(* controllers/admin.controller.js and controllers/report.controller.js    *)
(* act on the MongoDB collections.                                         *)
(*                                                                         *)
(* One challenge is modelled.  Every handler is a sequence of atomic       *)
(* steps: a step is the moment one awaited store operation takes effect,   *)
(* followed by the synchronous JavaScript that runs up to the next await.  *)
(* Handlers of different requests interleave between their steps.          *)
(***************************************************************************)
EXTENDS Integers, Sequences, FiniteSets, TLC

\* ------------------------------------------------------------------ bounds
MaxInFlight == 2      \* requests in flight at the same time
MaxClock == 4         \* timestamps (new Date()) taken by start and end handlers
MaxEvents == 2        \* most recent room events kept
MaxReports == 1       \* reports about the challenge pending at the same time

\* ------------------------------------------------------------- the people
Users == {"u1", "u2", "u3", "adm"}
Admins == {"adm"}
\* who creates the challenge
Creators == {"u1"}
\* the callers of startChallenge and endChallenge
Members == Users \ Admins
NoUser == "nobody"

Sockets == {"s1", "s2", "s3"}

\* users whose YouTube account is linked (User.youtubeLinked)
LinkedChoices == {Users, Users \ {"u2"}}

\* who submits ratings, and the scores they send (ratingSchema: min 1, max 5)
Raters == {"u2", "u3"}
ScoreInputs == {1, 3, 6}
MinScore == 1
MaxScore == 5

\* ------------------------------------------------------------- rationals
\* Amounts of money are JavaScript Numbers; the model computes them exactly,
\* as fractions <<numerator, denominator>> in lowest terms.
RECURSIVE GCD(_, _)
GCD(a, b) == IF b = 0 THEN a ELSE GCD(b, a % b)

Abs(x) == IF x < 0 THEN -x ELSE x

Norm(n, d) ==
  LET g == GCD(Abs(n), Abs(d))
      s == IF d < 0 THEN -1 ELSE 1
  IN  IF n = 0 THEN <<0, 1>> ELSE <<s * (n \div g), s * (d \div g)>>

Rat(n) == <<n, 1>>
RMul(x, y) == Norm(x[1] * y[1], x[2] * y[2])
RDiv(x, y) == Norm(x[1] * y[2], x[2] * y[1])
RAdd(x, y) == Norm(x[1] * y[2] + y[1] * x[2], x[2] * y[2])
RPos(x) == x[1] > 0

\* 0.20 and 0.80, the platform's and the competitors' cut
PlatformCut == <<1, 5>>
CompetitorsCut == <<4, 5>>

\* ---------------------------------------------------------- advertisements
Ads == {"a1", "a2"}
\* Advertisement.paidAmount of each ad
PaidAmount(a) == IF a = "a1" THEN 100 ELSE 50

\* ------------------------------------------------------------------ state
VARIABLES
  challenge,      \* the Challenge document (status "absent": not created yet)
  linked,         \* users with User.youtubeLinked
  io,             \* the sockets: activeConnections, the room challenge:<id>
                  \* and the most recent viewer events emitted to it
  invitations,    \* the ChallengeInvitation documents of the challenge
  reports,        \* reporters with a pending Report about the challenge
  ratings,        \* the Rating documents of the challenge
  transactions,   \* the Transaction documents of the challenge, oldest first
  earnings,       \* User.totalEarnings and User.totalChallenges of every user
  events,         \* the most recent events emitted to the room challenge:<id>
  clock,          \* timestamps taken so far
  h               \* the requests in flight, one per slot

vars == <<challenge, linked, io, invitations, reports, ratings, transactions,
          earnings, events, clock, h>>

store == <<challenge, linked, io, invitations, reports, ratings, transactions,
           earnings>>

ZeroDistribution == [platform |-> Rat(0), creator |-> Rat(0), opponent |-> Rat(0)]

\* Challenge schema defaults; "absent" stands for no document
NoChallenge ==
  [status |-> "absent", creator |-> NoUser, opponent |-> NoUser,
   scheduledTime |-> FALSE, startedAt |-> 0, endedAt |-> 0,
   creatorBroadcast |-> 0, opponentBroadcast |-> 0,
   advertisements |-> [a \in Ads |-> "none"],
   rejectedBy |-> [a \in Ads |-> NoUser],
   totalRevenue |-> 0, revenueDistribution |-> ZeroDistribution,
   peakViewers |-> 0, totalRatings |-> 0,
   creatorRatingSum |-> 0, opponentRatingSum |-> 0,
   creatorRatingCount |-> 0, opponentRatingCount |-> 0]

\* the enum of challengeSchema.status
StatusEnum == {"pending", "scheduled", "live", "completed", "cancelled"}

\* document.save(): only the paths whose value differs from the loaded one
\* are written ($set of the modified paths)
SaveModified(loaded, edited) ==
  [f \in DOMAIN challenge |->
     IF edited[f] # loaded[f] THEN edited[f] ELSE challenge[f]]

\* ------------------------------------------------------- requests in flight
Idle ==
  [op |-> "idle", pc |-> "idle", user |-> NoUser, target |-> NoUser,
   choice |-> "-", score |-> 0, code |-> "-", doc |-> NoChallenge,
   prior |-> 0, cSum |-> 0, cCnt |-> 0, oSum |-> 0, oCnt |-> 0]

Req(op, u, t, c, s) ==
  [Idle EXCEPT !.op = op, !.pc = "begin", !.user = u, !.target = t,
               !.choice = c, !.score = s]

\* res.status(..).json(..): the handler is over, its reply is on its way
Reply(r, code) ==
  [Req(r.op, r.user, NoUser, "-", 0) EXCEPT !.pc = "respond", !.code = code]

\* the reply of a rating request, which the checks below read in full
ReplyFull(r, code) ==
  [Req(r.op, r.user, r.target, r.choice, r.score) EXCEPT
     !.pc = "respond", !.code = code]

\* a new request takes the lowest free slot
CanBegin(p) ==
  /\ h[p].pc = "idle"
  /\ \A q \in 1..(p - 1) : h[q].pc # "idle"

At(p, op, pc) == h[p].op = op /\ h[p].pc = pc

Emit(e) ==
  LET all == Append(events, e)
  IN  IF Len(all) > MaxEvents THEN Tail(all) ELSE all

\* the window of the most recent events after one more event
Emit2(seq, e) ==
  LET all == Append(seq, e)
  IN  IF Len(all) > MaxEvents THEN Tail(all) ELSE all

\* no socket connected, the room of the challenge empty, nothing emitted
NoSockets == [connections |-> {}, room |-> {}, log |-> <<>>]

IsCreator(c, u) == c.creator = u
IsOpponent(c, u) == c.opponent # NoUser /\ c.opponent = u

Init ==
  /\ challenge = NoChallenge
  /\ linked \in LinkedChoices
  /\ io = NoSockets
  /\ invitations = {}
  /\ reports = {}
  /\ ratings = {}
  /\ transactions = <<>>
  /\ earnings = [u \in Users |-> [totalEarnings |-> Rat(0), totalChallenges |-> 0]]
  /\ events = <<>>
  /\ clock = 0
  /\ h = [p \in 1..MaxInFlight |-> Idle]

\* the reply leaves, the slot is free again
respond(p) ==
  /\ h[p].pc = "respond"
  /\ h' = [h EXCEPT ![p] = Idle]
  /\ UNCHANGED <<store, events, clock>>

\* ------------------------------------------------- challenge.controller.js
createChallenge(p) ==
  \E u \in Creators, sched \in {"none", "future", "past"} :
    LET r == Req("createChallenge", u, NoUser, sched, 0)
    IN  /\ CanBegin(p)
        /\ challenge.status = "absent"
        /\ IF sched = "past"
           THEN /\ h' = [h EXCEPT ![p] = Reply(r, "INVALID_SCHEDULE")]
                /\ UNCHANGED challenge
           ELSE /\ challenge' =
                     [NoChallenge EXCEPT
                        !.creator = u,
                        !.scheduledTime = (sched = "future"),
                        !.status = IF sched = "future" THEN "scheduled"
                                   ELSE "pending"]
                /\ h' = [h EXCEPT ![p] = Reply(r, "OK")]
        /\ UNCHANGED <<linked, io, invitations, reports, ratings, transactions,
                       earnings, events, clock>>

updateChallenge_begin(p) ==
  \E u \in Users, sched \in {"-", "set", "clear"} :
    LET r == Req("updateChallenge", u, NoUser, sched, 0)
        c == challenge
    IN  /\ CanBegin(p)
        /\ h' = [h EXCEPT ![p] =
             IF c.status = "absent" THEN Reply(r, "CHALLENGE_NOT_FOUND")
             ELSE IF ~IsCreator(c, u) THEN Reply(r, "NOT_CREATOR")
             ELSE IF c.status \in {"live", "completed"}
                  THEN Reply(r, "CANNOT_UPDATE")
             ELSE [r EXCEPT !.pc = "update"]]
        /\ UNCHANGED <<store, events, clock>>

\* Challenge.findByIdAndUpdate(id, updates)
updateChallenge_update(p) ==
  /\ At(p, "updateChallenge", "update")
  /\ challenge' =
       IF h[p].choice = "-" THEN challenge
       ELSE [challenge EXCEPT !.scheduledTime = (h[p].choice = "set")]
  /\ h' = [h EXCEPT ![p] = Reply(h[p], "OK")]
  /\ UNCHANGED <<linked, io, invitations, reports, ratings, transactions,
                 earnings, events, clock>>

CancelCheck(c, u) ==
  IF c.status = "absent" THEN "CHALLENGE_NOT_FOUND"
  ELSE IF ~IsCreator(c, u) /\ u \notin Admins THEN "FORBIDDEN"
  ELSE IF c.status = "completed" THEN "CANNOT_CANCEL"
  ELSE "OK"

cancelChallenge_begin(p) ==
  \E u \in Users :
    LET r == Req("cancelChallenge", u, NoUser, "-", 0)
        c == challenge
    IN  /\ CanBegin(p)
        /\ h' = [h EXCEPT ![p] =
             IF CancelCheck(c, u) # "OK" THEN Reply(r, CancelCheck(c, u))
             ELSE [r EXCEPT !.pc = "save", !.doc = c]]
        /\ UNCHANGED <<store, events, clock>>

cancelChallenge_save(p) ==
  /\ At(p, "cancelChallenge", "save")
  /\ challenge' = SaveModified(h[p].doc, [h[p].doc EXCEPT !.status = "cancelled"])
  /\ h' = [h EXCEPT ![p] = Reply(h[p], "OK")]
  /\ UNCHANGED <<linked, io, invitations, reports, ratings, transactions,
                 earnings, events, clock>>

JoinCheck(c, u) ==
  IF c.status = "absent" THEN "CHALLENGE_NOT_FOUND"
  ELSE IF IsCreator(c, u) THEN "CANNOT_JOIN_OWN"
  ELSE IF c.status # "pending" THEN "INVALID_STATUS"
  ELSE IF c.opponent # NoUser THEN "ALREADY_HAS_OPPONENT"
  ELSE "OK"

requestToJoin_begin(p) ==
  \E u \in Users :
    LET r == Req("requestToJoin", u, NoUser, "-", 0)
        c == challenge
    IN  /\ CanBegin(p)
        /\ h' = [h EXCEPT ![p] =
             IF JoinCheck(c, u) # "OK" THEN Reply(r, JoinCheck(c, u))
             ELSE [r EXCEPT !.pc = "findExisting", !.doc = c]]
        /\ UNCHANGED <<store, events, clock>>

\* ChallengeInvitation.findOne({challenge, invitee: req.user._id, status: 'pending'})
requestToJoin_findExisting(p) ==
  /\ At(p, "requestToJoin", "findExisting")
  /\ h' = [h EXCEPT ![p] =
       IF \E i \in invitations : i.invitee = h[p].user /\ i.status = "pending"
       THEN Reply(h[p], "ALREADY_REQUESTED")
       ELSE [h[p] EXCEPT !.pc = "create"]]
  /\ UNCHANGED <<store, events, clock>>

\* ChallengeInvitation.create under the unique index {challenge, invitee}
requestToJoin_create(p) ==
  /\ At(p, "requestToJoin", "create")
  /\ LET new == [inviter |-> h[p].user, invitee |-> h[p].doc.creator,
                 status |-> "pending"]
     IN  IF \E i \in invitations : i.invitee = new.invitee
         THEN /\ h' = [h EXCEPT ![p] = Reply(h[p], "DUPLICATE_FIELD")]
              /\ UNCHANGED invitations
         ELSE /\ invitations' = invitations \cup {new}
              /\ h' = [h EXCEPT ![p] = Reply(h[p], "OK")]
  /\ UNCHANGED <<challenge, linked, io, reports, ratings, transactions, earnings,
                 events, clock>>

AcceptCheck(c, u) ==
  IF c.status = "absent" THEN "CHALLENGE_NOT_FOUND"
  ELSE IF ~IsCreator(c, u) THEN "NOT_CREATOR"
  ELSE "OK"

acceptRejectJoinRequest_begin(p) ==
  \E u \in Users, userId \in Users, action \in {"accept", "reject"} :
    LET r == Req("acceptRejectJoinRequest", u, userId, action, 0)
        c == challenge
    IN  /\ CanBegin(p)
        /\ h' = [h EXCEPT ![p] =
             IF AcceptCheck(c, u) # "OK" THEN Reply(r, AcceptCheck(c, u))
             ELSE [r EXCEPT !.pc = "findInvitation", !.doc = c]]
        /\ UNCHANGED <<store, events, clock>>

\* ChallengeInvitation.findOne({challenge, inviter: userId, status: 'pending'})
acceptRejectJoinRequest_findInvitation(p) ==
  /\ At(p, "acceptRejectJoinRequest", "findInvitation")
  /\ h' = [h EXCEPT ![p] =
       IF ~\E i \in invitations : i.inviter = h[p].target /\ i.status = "pending"
       THEN Reply(h[p], "INVITATION_NOT_FOUND")
       ELSE IF h[p].choice = "accept" THEN [h[p] EXCEPT !.pc = "saveChallenge"]
       ELSE [h[p] EXCEPT !.pc = "saveInvitation"]]
  /\ UNCHANGED <<store, events, clock>>

\* challenge.opponent = userId; challenge.status = scheduledTime ? 'scheduled' : 'pending'
AcceptedChallenge(c, userId) ==
  [c EXCEPT !.opponent = userId,
            !.status = IF c.scheduledTime THEN "scheduled" ELSE "pending"]

acceptRejectJoinRequest_saveChallenge(p) ==
  /\ At(p, "acceptRejectJoinRequest", "saveChallenge")
  /\ challenge' = SaveModified(h[p].doc, AcceptedChallenge(h[p].doc, h[p].target))
  /\ h' = [h EXCEPT ![p] = [h[p] EXCEPT !.pc = "saveInvitation"]]
  /\ UNCHANGED <<linked, io, invitations, reports, ratings, transactions,
                 earnings, events, clock>>

\* invitation.status = 'accepted' | 'rejected'; invitation.save()
acceptRejectJoinRequest_saveInvitation(p) ==
  /\ At(p, "acceptRejectJoinRequest", "saveInvitation")
  /\ invitations' =
       {IF i.inviter = h[p].target
        THEN [i EXCEPT !.status = IF h[p].choice = "accept" THEN "accepted"
                                  ELSE "rejected"]
        ELSE i : i \in invitations}
  /\ h' = [h EXCEPT ![p] = Reply(h[p], "OK")]
  /\ UNCHANGED <<challenge, linked, io, reports, ratings, transactions, earnings,
                 events, clock>>

\* ---------------------------------------------------------- start and end
\* handlers that will still take a timestamp
TicksPending ==
  Cardinality({q \in 1..MaxInFlight :
     h[q].pc \in {"provider", "findCreatorRatings", "findOpponentRatings"}})

ClockLeft == clock + TicksPending < MaxClock

\* a handler that does not look for the opponent
StartCheck_anyOpponent(c, u) ==
  IF c.status = "absent" THEN "CHALLENGE_NOT_FOUND"
  ELSE IF ~(IsCreator(c, u) \/ IsOpponent(c, u)) THEN "NOT_PARTICIPANT"
  ELSE IF c.status = "live" THEN "ALREADY_LIVE"
  ELSE IF c.status = "completed" THEN "ALREADY_COMPLETED"
  ELSE IF c.creator \notin linked \/ c.opponent \notin linked
       THEN "YOUTUBE_NOT_LINKED"
  ELSE "OK"

StartCheck(c, u) ==
  IF c.status = "absent" THEN "CHALLENGE_NOT_FOUND"
  ELSE IF ~(IsCreator(c, u) \/ IsOpponent(c, u)) THEN "NOT_PARTICIPANT"
  ELSE IF c.opponent = NoUser THEN "NO_OPPONENT"
  ELSE IF c.status = "live" THEN "ALREADY_LIVE"
  ELSE IF c.status = "completed" THEN "ALREADY_COMPLETED"
  ELSE IF c.creator \notin linked \/ c.opponent \notin linked
       THEN "YOUTUBE_NOT_LINKED"
  ELSE "OK"

startChallenge_begin(p) ==
  \E u \in Members :
    LET r == Req("startChallenge", u, NoUser, "-", 0)
        c == challenge
    IN  /\ CanBegin(p)
        /\ StartCheck(c, u) = "OK" => ClockLeft
        /\ h' = [h EXCEPT ![p] =
             IF StartCheck(c, u) # "OK" THEN Reply(r, StartCheck(c, u))
             ELSE [r EXCEPT !.pc = "provider", !.doc = c]]
        /\ UNCHANGED <<store, events, clock>>

\* the document as startChallenge edits it once both broadcasts exist
StartedChallenge(c, t) ==
  [c EXCEPT !.status = "live", !.startedAt = t,
            !.creatorBroadcast = t, !.opponentBroadcast = t]

\* a handler that marks the challenge live before its broadcasts exist
startChallenge_provider_liveFirst(p) ==
  \E ok \in BOOLEAN :
    /\ At(p, "startChallenge", "provider")
    /\ clock' = clock + 1
    /\ challenge' = SaveModified(h[p].doc, StartedChallenge(h[p].doc, clock + 1))
    /\ h' = [h EXCEPT ![p] =
         IF ok THEN [h[p] EXCEPT !.pc = "save", !.score = clock + 1]
         ELSE Reply(h[p], "YOUTUBE_API_ERROR")]
    /\ UNCHANGED <<linked, io, invitations, reports, ratings, transactions,
                   earnings, events>>

\* Promise.all([createLiveBroadcast(creator), createLiveBroadcast(opponent)]):
\* both broadcasts are created, or one call throws and the catch block replies
startChallenge_provider(p) ==
  \E ok \in BOOLEAN :
    /\ At(p, "startChallenge", "provider")
    /\ IF ok
       THEN /\ clock' = clock + 1
            /\ h' = [h EXCEPT ![p] =
                 [h[p] EXCEPT !.pc = "save", !.score = clock + 1]]
       ELSE /\ h' = [h EXCEPT ![p] = Reply(h[p], "YOUTUBE_API_ERROR")]
            /\ UNCHANGED clock
    /\ UNCHANGED <<store, events>>

\* challenge.save() inside the try block: a save that throws writes nothing
\* and ends in the same catch block
startChallenge_save(p) ==
  /\ At(p, "startChallenge", "save")
  /\ \E ok \in BOOLEAN :
       IF ok
       THEN /\ challenge' =
                 SaveModified(h[p].doc, StartedChallenge(h[p].doc, h[p].score))
            /\ h' = [h EXCEPT ![p] = [h[p] EXCEPT !.pc = "emit"]]
       ELSE /\ h' = [h EXCEPT ![p] = Reply(h[p], "YOUTUBE_API_ERROR")]
            /\ UNCHANGED challenge
  /\ UNCHANGED <<linked, io, invitations, reports, ratings, transactions,
                 earnings, events, clock>>

StatusChanged(status) == [type |-> "challenge_status_changed", status |-> status,
                          ad |-> "-",
                          cSum |-> 0, cCnt |-> 0, oSum |-> 0, oCnt |-> 0]

startChallenge_emit(p) ==
  /\ At(p, "startChallenge", "emit")
  /\ events' = Emit(StatusChanged("live"))
  /\ h' = [h EXCEPT ![p] = Reply(h[p], "OK")]
  /\ UNCHANGED <<store, clock>>

\* a handler that looks at the status before it looks at the caller
EndCheck_statusFirst(c, u) ==
  IF c.status = "absent" THEN "CHALLENGE_NOT_FOUND"
  ELSE IF c.status # "live" THEN "NOT_LIVE"
  ELSE IF ~(IsCreator(c, u) \/ IsOpponent(c, u)) THEN "NOT_PARTICIPANT"
  ELSE "OK"

EndCheck(c, u) ==
  IF c.status = "absent" THEN "CHALLENGE_NOT_FOUND"
  ELSE IF ~(IsCreator(c, u) \/ IsOpponent(c, u)) THEN "NOT_PARTICIPANT"
  ELSE IF c.status # "live" THEN "NOT_LIVE"
  ELSE "OK"

\* a sum that counts every binding of the challenge, whatever its status
RECURSIVE SumPaid_all(_, _)
SumPaid_all(c, S) ==
  IF S = {} THEN 0
  ELSE LET a == CHOOSE x \in S : TRUE
       IN  (IF c.advertisements[a] # "none" THEN PaidAmount(a) ELSE 0)
           + SumPaid_all(c, S \ {a})

RECURSIVE SumPaid(_, _)
SumPaid(c, S) ==
  IF S = {} THEN 0
  ELSE LET a == CHOOSE x \in S : TRUE
       IN  (IF c.advertisements[a] = "displayed" THEN PaidAmount(a) ELSE 0)
           + SumPaid(c, S \ {a})

\* displayedAds.reduce((sum, ad) => sum + paidAmount, 0)
TotalRevenue(c) == SumPaid(c, Ads)

PlatformShare(total) == RMul(Rat(total), PlatformCut)
\* a competitors' share from which the platform's cut was not taken
CompetitorsShare_uncut(total) == Rat(total)

CompetitorsShare(total) == RMul(Rat(total), CompetitorsCut)

\* (score / totalScore) * 100, or 50 when nobody rated
RatingPercentage(mine, totalScore) ==
  IF totalScore > 0 THEN RMul(RDiv(Rat(mine), Rat(totalScore)), Rat(100))
  ELSE Rat(50)

\* a share taken from the total revenue instead of the competitors' share
CompetitorRevenue_ofTotal(total, mine, totalScore) ==
  IF totalScore > 0
  THEN RMul(Rat(total), RDiv(RatingPercentage(mine, totalScore), Rat(100)))
  ELSE RDiv(CompetitorsShare(total), Rat(2))

\* competitorsShare * (percentage / 100), or competitorsShare / 2
CompetitorRevenue(total, mine, totalScore) ==
  IF totalScore > 0
  THEN RMul(CompetitorsShare(total),
            RDiv(RatingPercentage(mine, totalScore), Rat(100)))
  ELSE RDiv(CompetitorsShare(total), Rat(2))

\* a distribution that hands each participant the other's share
Distribution_swapped(total, creatorTotalScore, opponentTotalScore) ==
  LET totalScore == creatorTotalScore + opponentTotalScore
  IN  [platform |-> PlatformShare(total),
       creator |-> CompetitorRevenue(total, opponentTotalScore, totalScore),
       opponent |-> CompetitorRevenue(total, creatorTotalScore, totalScore)]

Distribution(total, creatorTotalScore, opponentTotalScore) ==
  LET totalScore == creatorTotalScore + opponentTotalScore
  IN  [platform |-> PlatformShare(total),
       creator |-> CompetitorRevenue(total, creatorTotalScore, totalScore),
       opponent |-> CompetitorRevenue(total, opponentTotalScore, totalScore)]

RECURSIVE SumScores(_)
SumScores(S) ==
  IF S = {} THEN 0
  ELSE LET r == CHOOSE x \in S : TRUE IN r.score + SumScores(S \ {r})

\* Rating.find({challenge, competitorRated: who})
RatingsOf(who) == {r \in ratings : r.competitorRated = who}

endChallenge_begin(p) ==
  \E u \in Members :
    LET r == Req("endChallenge", u, NoUser, "-", 0)
        c == challenge
    IN  /\ CanBegin(p)
        /\ EndCheck(c, u) = "OK" => ClockLeft
        /\ h' = [h EXCEPT ![p] =
             IF EndCheck(c, u) # "OK" THEN Reply(r, EndCheck(c, u))
             ELSE [r EXCEPT !.pc = "findCreatorRatings", !.doc = c]]
        /\ UNCHANGED <<store, events, clock>>

endChallenge_findCreatorRatings(p) ==
  /\ At(p, "endChallenge", "findCreatorRatings")
  /\ h' = [h EXCEPT ![p] =
       [h[p] EXCEPT !.pc = "findOpponentRatings",
                    !.cSum = SumScores(RatingsOf(h[p].doc.creator)),
                    !.cCnt = Cardinality(RatingsOf(h[p].doc.creator))]]
  /\ UNCHANGED <<store, events, clock>>

endChallenge_findOpponentRatings(p) ==
  /\ At(p, "endChallenge", "findOpponentRatings")
  /\ clock' = clock + 1
  /\ h' = [h EXCEPT ![p] =
       [h[p] EXCEPT !.pc = "save", !.score = clock + 1,
                    !.oSum = SumScores(RatingsOf(h[p].doc.opponent)),
                    !.oCnt = Cardinality(RatingsOf(h[p].doc.opponent))]]
  /\ UNCHANGED <<store, events>>

\* the distribution an endChallenge handler has computed
Computed(r) == Distribution(TotalRevenue(r.doc), r.cSum, r.oSum)

CompletedChallenge(r) ==
  [r.doc EXCEPT !.status = "completed", !.endedAt = r.score,
                !.totalRevenue = TotalRevenue(r.doc),
                !.revenueDistribution = Computed(r)]

\* what follows challenge.save(): the transactions of the positive shares
AfterSave(r) ==
  IF RPos(Computed(r).creator) THEN "creatorTransaction"
  ELSE IF RPos(Computed(r).opponent) THEN "opponentTransaction"
  ELSE "emit"

AfterCreator(r) ==
  IF RPos(Computed(r).opponent) THEN "opponentTransaction" ELSE "emit"

endChallenge_save(p) ==
  /\ At(p, "endChallenge", "save")
  /\ challenge' = SaveModified(h[p].doc, CompletedChallenge(h[p]))
  /\ h' = [h EXCEPT ![p] = [h[p] EXCEPT !.pc = AfterSave(h[p])]]
  /\ UNCHANGED <<linked, io, invitations, reports, ratings, transactions,
                 earnings, events, clock>>

EarningTransaction(r, role) ==
  [user |-> IF role = "creator" THEN r.doc.creator ELSE r.doc.opponent,
   amount |-> Computed(r)[role],
   ratingPercentage |->
     RatingPercentage(IF role = "creator" THEN r.cSum ELSE r.oSum,
                      r.cSum + r.oSum),
   totalChallengeRevenue |-> TotalRevenue(r.doc),
   competitorRole |-> role]

\* Transaction.create: the insert fails when the generated invoiceNumber
\* (unique index) is already taken, or when user is missing
createTransaction(p, role, next) ==
  \E ok \in BOOLEAN :
    /\ IF ok /\ EarningTransaction(h[p], role).user # NoUser
       THEN /\ transactions' = Append(transactions, EarningTransaction(h[p], role))
            /\ h' = [h EXCEPT ![p] = [h[p] EXCEPT !.pc = next]]
       ELSE /\ h' = [h EXCEPT ![p] =
                 Reply(h[p], IF ok THEN "VALIDATION_ERROR" ELSE "DUPLICATE_FIELD")]
            /\ UNCHANGED transactions
    /\ UNCHANGED <<challenge, linked, io, invitations, reports, ratings, earnings,
                   events, clock>>

\* User.findByIdAndUpdate(user, {$inc: {totalEarnings, totalChallenges: 1}})
creditEarnings(p, role, next) ==
  LET t == EarningTransaction(h[p], role)
  IN  /\ earnings' = [earnings EXCEPT ![t.user] =
           [totalEarnings |-> RAdd(@.totalEarnings, t.amount),
            totalChallenges |-> @.totalChallenges + 1]]
      /\ h' = [h EXCEPT ![p] = [h[p] EXCEPT !.pc = next]]
      /\ UNCHANGED <<challenge, linked, io, invitations, reports, ratings,
                     transactions, events, clock>>

endChallenge_creatorTransaction(p) ==
  /\ At(p, "endChallenge", "creatorTransaction")
  /\ createTransaction(p, "creator", "creatorEarnings")

endChallenge_creatorEarnings(p) ==
  /\ At(p, "endChallenge", "creatorEarnings")
  /\ creditEarnings(p, "creator", AfterCreator(h[p]))

endChallenge_opponentTransaction(p) ==
  /\ At(p, "endChallenge", "opponentTransaction")
  /\ createTransaction(p, "opponent", "opponentEarnings")

endChallenge_opponentEarnings(p) ==
  /\ At(p, "endChallenge", "opponentEarnings")
  /\ creditEarnings(p, "opponent", "emit")

endChallenge_emit(p) ==
  /\ At(p, "endChallenge", "emit")
  /\ events' = Emit(StatusChanged("completed"))
  /\ h' = [h EXCEPT ![p] = Reply(h[p], "OK")]
  /\ UNCHANGED <<store, clock>>

\* ----------------------------------------------------- admin.controller.js
suspendChallenge_begin(p) ==
  \E u \in Admins :
    LET r == Req("suspendChallenge", u, NoUser, "-", 0)
        c == challenge
    IN  /\ CanBegin(p)
        /\ h' = [h EXCEPT ![p] =
             IF c.status = "absent" THEN Reply(r, "CHALLENGE_NOT_FOUND")
             ELSE [r EXCEPT !.pc = "save", !.doc = c]]
        /\ UNCHANGED <<store, events, clock>>

\* status 'suspended' ? 'scheduled' : 'suspended'
SuspendedChallenge(c) ==
  [c EXCEPT !.status = IF c.status = "suspended" THEN "scheduled"
                       ELSE "suspended"]

\* challenge.save() validates the modified paths against the schema first
suspendChallenge_save(p) ==
  /\ At(p, "suspendChallenge", "save")
  /\ IF SuspendedChallenge(h[p].doc).status \in StatusEnum
     THEN /\ challenge' = SaveModified(h[p].doc, SuspendedChallenge(h[p].doc))
          /\ h' = [h EXCEPT ![p] = Reply(h[p], "OK")]
     ELSE /\ h' = [h EXCEPT ![p] = Reply(h[p], "VALIDATION_ERROR")]
          /\ UNCHANGED challenge
  /\ UNCHANGED <<linked, io, invitations, reports, ratings, transactions,
                 earnings, events, clock>>

\* ---------------------------------------------------- report.controller.js
\* createReport with itemType 'challenge'
createReport(p) ==
  \E u \in Users :
    LET r == Req("createReport", u, NoUser, "-", 0)
    IN  /\ CanBegin(p)
        /\ Cardinality(reports) < MaxReports
        /\ IF challenge.status = "absent"
           THEN /\ h' = [h EXCEPT ![p] = Reply(r, "NOT_FOUND")]
                /\ UNCHANGED reports
           ELSE IF u \in reports
           THEN /\ h' = [h EXCEPT ![p] = Reply(r, "ALREADY_REPORTED")]
                /\ UNCHANGED reports
           ELSE /\ reports' = reports \cup {u}
                /\ h' = [h EXCEPT ![p] = Reply(r, "OK")]
        /\ UNCHANGED <<challenge, linked, io, invitations, ratings, transactions,
                       earnings, events, clock>>

reviewReport_begin(p) ==
  \E u \in Admins, reporter \in Users, action \in {"approve", "reject"} :
    LET r == Req("reviewReport", u, reporter, action, 0)
    IN  /\ CanBegin(p)
        /\ h' = [h EXCEPT ![p] =
             IF reporter \notin reports THEN Reply(r, "ALREADY_REVIEWED")
             ELSE [r EXCEPT !.pc = "saveReport"]]
        /\ UNCHANGED <<store, events, clock>>

\* report.status = 'resolved' | 'rejected'; report.save()
reviewReport_saveReport(p) ==
  /\ At(p, "reviewReport", "saveReport")
  /\ reports' = reports \ {h[p].target}
  /\ h' = [h EXCEPT ![p] =
       IF h[p].choice = "approve" THEN [h[p] EXCEPT !.pc = "suspend"]
       ELSE Reply(h[p], "OK")]
  /\ UNCHANGED <<challenge, linked, io, invitations, ratings, transactions,
                 earnings, events, clock>>

\* Challenge.findByIdAndUpdate(report.reportedItem, {status: 'suspended'})
reviewReport_suspend(p) ==
  /\ At(p, "reviewReport", "suspend")
  /\ challenge' = IF challenge.status = "absent" THEN challenge
                  ELSE [challenge EXCEPT !.status = "suspended"]
  /\ h' = [h EXCEPT ![p] = Reply(h[p], "OK")]
  /\ UNCHANGED <<linked, io, invitations, reports, ratings, transactions,
                 earnings, events, clock>>

\* ------------------------------------------------ advertisement scheduling
\* assign(adId, challengeId, displayTime)
assignAd(a) ==
    /\ challenge.status \in {"scheduled", "live"}
    /\ challenge.advertisements[a] = "none"
    /\ challenge' = [challenge EXCEPT !.advertisements[a] = "pending"]
    /\ UNCHANGED <<linked, io, invitations, reports, ratings, transactions,
                   earnings, events, clock, h>>

\* markDisplayed(adId)
markAdDisplayed(a) ==
    /\ challenge.status = "live"
    /\ challenge.advertisements[a] = "pending"
    /\ challenge' = [challenge EXCEPT !.advertisements[a] = "displayed"]
    /\ UNCHANGED <<linked, io, invitations, reports, ratings, transactions,
                   earnings, events, clock, h>>

\* rejectAdvertisement: the checks before the binding is touched
RejectCheck(c, u, a) ==
  IF c.status = "absent" THEN "CHALLENGE_NOT_FOUND"
  ELSE IF ~(IsCreator(c, u) \/ IsOpponent(c, u)) THEN "NOT_PARTICIPANT"
  ELSE IF c.advertisements[a] = "none" THEN "AD_NOT_FOUND"
  ELSE "OK"

\* a rejectAdvertisement request for one of the given ads
rejectAdvertisement_request(p, ads) ==
  \E u \in Members, a \in ads :
    LET r == Req("rejectAdvertisement", u, NoUser, a, 0)
        c == challenge
    IN  /\ CanBegin(p)
        /\ h' = [h EXCEPT ![p] =
             IF RejectCheck(c, u, a) # "OK" THEN Reply(r, RejectCheck(c, u, a))
             ELSE [r EXCEPT !.pc = "save", !.doc = c]]
        /\ UNCHANGED <<store, events, clock>>

rejectAdvertisement_begin(p) == rejectAdvertisement_request(p, Ads)

\* advertisements[adIndex].status = 'rejected'; rejectedBy = req.user._id;
\* challenge.save() sets the paths of that one binding
rejectAdvertisement_save(p) ==
  /\ At(p, "rejectAdvertisement", "save")
  /\ challenge' = [challenge EXCEPT !.advertisements[h[p].choice] = "rejected",
                                    !.rejectedBy[h[p].choice] = h[p].user]
  /\ h' = [h EXCEPT ![p] = [h[p] EXCEPT !.pc = "emit"]]
  /\ UNCHANGED <<linked, io, invitations, reports, ratings, transactions,
                 earnings, events, clock>>

AdRejected(a) == [type |-> "ad_rejected", status |-> "-", ad |-> a,
                  cSum |-> 0, cCnt |-> 0, oSum |-> 0, oCnt |-> 0]

\* Advertisement.findByIdAndUpdate (the Advertisement document is not part
\* of this state), then emit('ad_rejected') and the reply
rejectAdvertisement_emit(p) ==
  /\ At(p, "rejectAdvertisement", "emit")
  /\ events' = Emit(AdRejected(h[p].choice))
  /\ h' = [h EXCEPT ![p] = Reply(h[p], "OK")]
  /\ UNCHANGED <<store, clock>>

\* ---------------------------------------------------- rating.controller.js
\* a handler that accepts ratings whatever the status of the challenge
RatingCheck_anyStatus(c, competitorRated) ==
  IF c.status = "absent" THEN "CHALLENGE_NOT_FOUND"
  ELSE IF competitorRated = c.creator THEN "OK"
  ELSE IF c.opponent = NoUser THEN "SERVER_ERROR"
  ELSE IF competitorRated # c.opponent THEN "INVALID_COMPETITOR"
  ELSE "OK"

RatingCheck(c, competitorRated) ==
  IF c.status = "absent" THEN "CHALLENGE_NOT_FOUND"
  ELSE IF c.status # "live" THEN "NOT_LIVE"
  ELSE IF competitorRated = c.creator THEN "OK"
  ELSE IF c.opponent = NoUser THEN "SERVER_ERROR"
  ELSE IF competitorRated # c.opponent THEN "INVALID_COMPETITOR"
  ELSE "OK"

\* a submitRating request for one of the given participants with one of the
\* given scores
submitRating_request(p, rated, scores) ==
  \E u \in Raters, competitorRated \in rated, score \in scores :
    LET r == Req("submitRating", u, competitorRated, "-", score)
        c == challenge
    IN  /\ CanBegin(p)
        /\ h' = [h EXCEPT ![p] =
             IF RatingCheck(c, competitorRated) # "OK"
             THEN ReplyFull(r, RatingCheck(c, competitorRated))
             ELSE [r EXCEPT !.pc = "findExisting", !.doc = c]]
        /\ UNCHANGED <<store, events, clock>>

submitRating_begin(p) == submitRating_request(p, Users, ScoreInputs)

\* the Rating document of a rater for a competitor, if any
Existing(rater, competitorRated) ==
  {r \in ratings : r.rater = rater /\ r.competitorRated = competitorRated}

ValidScore(score) == MinScore <= score /\ score <= MaxScore

\* Rating.findOne({challenge, rater, competitorRated}); the score is validated
\* by the save() or create() the handler goes on to
submitRating_findExisting(p) ==
  /\ At(p, "submitRating", "findExisting")
  /\ LET old == Existing(h[p].user, h[p].target)
     IN  h' = [h EXCEPT ![p] =
           IF ~ValidScore(h[p].score) THEN ReplyFull(h[p], "VALIDATION_ERROR")
           ELSE IF old # {}
           THEN [h[p] EXCEPT !.pc = "saveRating",
                             !.prior = (CHOOSE r \in old : TRUE).score]
           ELSE [h[p] EXCEPT !.pc = "createRating"]]
  /\ UNCHANGED <<store, events, clock>>

\* existingRating.score = score; existingRating.save()
submitRating_saveRating(p) ==
  /\ At(p, "submitRating", "saveRating")
  /\ IF Existing(h[p].user, h[p].target) = {}
     THEN /\ h' = [h EXCEPT ![p] = ReplyFull(h[p], "SERVER_ERROR")]
          /\ UNCHANGED ratings
     ELSE /\ ratings' =
               {IF r \in Existing(h[p].user, h[p].target) /\ h[p].score # h[p].prior
                THEN [r EXCEPT !.score = h[p].score] ELSE r : r \in ratings}
          /\ h' = [h EXCEPT ![p] = [h[p] EXCEPT !.pc = "findCreatorRatings"]]
  /\ UNCHANGED <<challenge, linked, io, invitations, reports, transactions,
                 earnings, events, clock>>

\* Rating.create on a collection without the unique index
submitRating_createRating_noIndex(p) ==
  /\ At(p, "submitRating", "createRating")
  /\ ratings' = ratings \cup
       {[rater |-> h[p].user, competitorRated |-> h[p].target,
         score |-> h[p].score]}
  /\ h' = [h EXCEPT ![p] = [h[p] EXCEPT !.pc = "findCreatorRatings"]]
  /\ UNCHANGED <<challenge, linked, io, invitations, reports, transactions,
                 earnings, events, clock>>

\* Rating.create under the unique index {rater, challenge, competitorRated}
submitRating_createRating(p) ==
  /\ At(p, "submitRating", "createRating")
  /\ IF Existing(h[p].user, h[p].target) # {}
     THEN /\ h' = [h EXCEPT ![p] = ReplyFull(h[p], "DUPLICATE_FIELD")]
          /\ UNCHANGED ratings
     ELSE /\ ratings' = ratings \cup
               {[rater |-> h[p].user, competitorRated |-> h[p].target,
                 score |-> h[p].score]}
          /\ h' = [h EXCEPT ![p] = [h[p] EXCEPT !.pc = "findCreatorRatings"]]
  /\ UNCHANGED <<challenge, linked, io, invitations, reports, transactions,
                 earnings, events, clock>>

submitRating_findCreatorRatings(p) ==
  /\ At(p, "submitRating", "findCreatorRatings")
  /\ h' = [h EXCEPT ![p] =
       [h[p] EXCEPT !.pc = "findOpponentRatings",
                    !.cSum = SumScores(RatingsOf(h[p].doc.creator)),
                    !.cCnt = Cardinality(RatingsOf(h[p].doc.creator))]]
  /\ UNCHANGED <<store, events, clock>>

submitRating_findOpponentRatings(p) ==
  /\ At(p, "submitRating", "findOpponentRatings")
  /\ h' = [h EXCEPT ![p] =
       [h[p] EXCEPT !.pc = "saveChallenge",
                    !.oSum = SumScores(RatingsOf(h[p].doc.opponent)),
                    !.oCnt = Cardinality(RatingsOf(h[p].doc.opponent))]]
  /\ UNCHANGED <<store, events, clock>>

\* a summary kept by adding every submitted score to the stored one
RatedChallenge_increment(r) ==
  IF r.target = r.doc.creator
  THEN [r.doc EXCEPT !.creatorRatingSum = @ + r.score,
                     !.creatorRatingCount = @ + 1,
                     !.totalRatings = @ + 1]
  ELSE [r.doc EXCEPT !.opponentRatingSum = @ + r.score,
                     !.opponentRatingCount = @ + 1,
                     !.totalRatings = @ + 1]

\* the rating summary as submitRating recomputes it from its two queries
RatedChallenge(r) ==
  [r.doc EXCEPT !.creatorRatingSum = r.cSum, !.creatorRatingCount = r.cCnt,
                !.opponentRatingSum = r.oSum, !.opponentRatingCount = r.oCnt,
                !.totalRatings = r.cCnt + r.oCnt]

submitRating_saveChallenge(p) ==
  /\ At(p, "submitRating", "saveChallenge")
  /\ challenge' = SaveModified(h[p].doc, RatedChallenge(h[p]))
  /\ h' = [h EXCEPT ![p] = [h[p] EXCEPT !.pc = "emit"]]
  /\ UNCHANGED <<linked, io, invitations, reports, ratings, transactions,
                 earnings, events, clock>>

RatingsUpdate(r) ==
  [type |-> "ratings_update", status |-> "-", ad |-> "-",
   cSum |-> r.cSum, cCnt |-> r.cCnt, oSum |-> r.oSum, oCnt |-> r.oCnt]

submitRating_emit(p) ==
  /\ At(p, "submitRating", "emit")
  /\ events' = Emit(RatingsUpdate(h[p]))
  /\ h' = [h EXCEPT ![p] = ReplyFull(h[p], "OK")]
  /\ UNCHANGED <<store, clock>>

\* ------------------------------------- rating.controller.js, second version
\* addRating: a challenge document has no path 'participants', so on a live
\* challenge challenge.participants.some(..) throws a TypeError, which the
\* error handler turns into a 500
AddRatingCheck(c) ==
  IF c.status = "absent" THEN "CHALLENGE_NOT_FOUND"
  ELSE IF c.status # "live" THEN "NOT_LIVE"
  ELSE "SERVER_ERROR"

addRating(p) ==
  \E u \in Raters, participant \in Creators, score \in ScoreInputs :
    LET r == Req("addRating", u, participant, "-", score)
    IN  /\ CanBegin(p)
        /\ h' = [h EXCEPT ![p] = ReplyFull(r, AddRatingCheck(challenge))]
        /\ UNCHANGED <<store, events, clock>>

\* deleteRating: Rating.findById and the check of the requester
DeleteCheck(found, rater, u) ==
  IF ~found THEN "RATING_NOT_FOUND"
  ELSE IF rater # u /\ u \notin Admins THEN "FORBIDDEN"
  ELSE "OK"

deleteRating_begin(p) ==
  \E u \in Users, rater \in Raters, rated \in Users :
    LET old == Existing(rater, rated)
        r == Req("deleteRating", u, rated, rater,
                 IF old = {} THEN 0 ELSE (CHOOSE x \in old : TRUE).score)
    IN  /\ CanBegin(p)
        /\ old = {} => rated \in Creators
        /\ h' = [h EXCEPT ![p] =
             IF DeleteCheck(old # {}, rater, u) # "OK"
             THEN ReplyFull(r, DeleteCheck(old # {}, rater, u))
             ELSE [r EXCEPT !.pc = "deleteOne"]]
        /\ UNCHANGED <<store, events, clock>>

\* rating.deleteOne()
deleteRating_deleteOne(p) ==
  /\ At(p, "deleteRating", "deleteOne")
  /\ ratings' = ratings \ Existing(h[p].choice, h[p].target)
  /\ h' = [h EXCEPT ![p] = [h[p] EXCEPT !.pc = "findRemaining"]]
  /\ UNCHANGED <<challenge, linked, io, invitations, reports, transactions,
                 earnings, events, clock>>

\* Rating.find({challenge, participant}) with rating.participant, a path
\* the Rating documents do not have
deleteRating_findRemaining(p) ==
  /\ At(p, "deleteRating", "findRemaining")
  /\ h' = [h EXCEPT ![p] = [h[p] EXCEPT !.pc = "findChallenge"]]
  /\ UNCHANGED <<store, events, clock>>

\* Challenge.findById, then challenge.participants.findIndex(..) throws a
\* TypeError: no summary is written and nothing is emitted
deleteRating_findChallenge(p) ==
  /\ At(p, "deleteRating", "findChallenge")
  /\ h' = [h EXCEPT ![p] = ReplyFull(h[p], "SERVER_ERROR")]
  /\ UNCHANGED <<store, events, clock>>

\* ------------------------------------------------ socket handlers (io)
\* the user the authentication middleware attaches to a socket: u3 is
\* connected through two sockets
UserOf(s) == IF s = "s3" THEN "u2" ELSE "u3"

\* io.to(room).emit(type, {viewerCount, user}): delivered to the sockets
\* that are in the room at that moment
RoomEvent(type, s, room) ==
  [type |-> type, viewerCount |-> Cardinality(room), user |-> UserOf(s),
   to |-> room]

\* io.on('connection'): activeConnections.set(socket.id, ..)
connection(s) ==
  /\ s \notin io.connections
  /\ io' = [io EXCEPT !.connections = @ \cup {s}]
  /\ UNCHANGED <<challenge, linked, invitations, reports, ratings,
                 transactions, earnings, events, clock, h>>

\* socket.on('join_challenge'): socket.join adds the socket to the set of
\* the room, viewerCount is the size of that set
join_challenge(s) ==
  /\ s \in io.connections
  /\ LET room == io.room \cup {s}
     IN  io' = [io EXCEPT !.room = room,
                          !.log = Emit2(@, RoomEvent("viewer_joined", s, room))]
  /\ UNCHANGED <<challenge, linked, invitations, reports, ratings,
                 transactions, earnings, events, clock, h>>

\* socket.on('leave_challenge')
leave_challenge(s) ==
  /\ s \in io.connections
  /\ LET room == io.room \ {s}
     IN  io' = [io EXCEPT !.room = room,
                          !.log = Emit2(@, RoomEvent("viewer_left", s, room))]
  /\ UNCHANGED <<challenge, linked, invitations, reports, ratings,
                 transactions, earnings, events, clock, h>>

\* socket.on('disconnect'): the socket has left its rooms before the event
\* fires, so socket.rooms is empty and nothing is emitted
disconnect(s) ==
  /\ s \in io.connections
  /\ io' = [io EXCEPT !.connections = @ \ {s}, !.room = @ \ {s}]
  /\ UNCHANGED <<challenge, linked, invitations, reports, ratings,
                 transactions, earnings, events, clock, h>>

\* setInterval, every 5 seconds: viewer_count_update {challengeId,
\* viewerCount, timestamp} to every room that has a member
viewer_count_update ==
  /\ io.room # {}
  /\ io' = [io EXCEPT !.log =
       Emit2(@, [type |-> "viewer_count_update",
                 viewerCount |-> Cardinality(io.room), user |-> "-",
                 to |-> io.room])]
  /\ UNCHANGED <<challenge, linked, invitations, reports, ratings,
                 transactions, earnings, events, clock, h>>

\* socket.on('challenge_status_changed' | 'rating_submitted' | 'ad_rejected'):
\* the payload the client sent is emitted to the room of the challenge
relay(s) ==
  /\ s \in io.connections
  /\ \E e \in {StatusChanged("completed"), AdRejected("a1"),
               RatingsUpdate([cSum |-> MaxScore, cCnt |-> 1,
                              oSum |-> 0, oCnt |-> 0])} :
       events' = Emit(e)
  /\ UNCHANGED <<store, clock, h>>

\* ------------------------------------------------------------ lifecycle
Lifecycle(p) ==
  \/ createChallenge(p)
  \/ updateChallenge_begin(p) \/ updateChallenge_update(p)
  \/ cancelChallenge_begin(p) \/ cancelChallenge_save(p)
  \/ requestToJoin_begin(p) \/ requestToJoin_findExisting(p)
  \/ requestToJoin_create(p)
  \/ acceptRejectJoinRequest_begin(p)
  \/ acceptRejectJoinRequest_findInvitation(p)
  \/ acceptRejectJoinRequest_saveChallenge(p)
  \/ acceptRejectJoinRequest_saveInvitation(p)
  \/ startChallenge_begin(p) \/ startChallenge_provider(p)
  \/ startChallenge_save(p) \/ startChallenge_emit(p)
  \/ endChallenge_begin(p) \/ endChallenge_findCreatorRatings(p)
  \/ endChallenge_findOpponentRatings(p) \/ endChallenge_save(p)
  \/ endChallenge_creatorTransaction(p) \/ endChallenge_creatorEarnings(p)
  \/ endChallenge_opponentTransaction(p) \/ endChallenge_opponentEarnings(p)
  \/ endChallenge_emit(p)
  \/ suspendChallenge_begin(p) \/ suspendChallenge_save(p)
  \/ createReport(p)
  \/ reviewReport_begin(p) \/ reviewReport_saveReport(p)
  \/ reviewReport_suspend(p)
  \/ respond(p)

\* requests handled one at a time
SeqProcs == {1}
\* requests handled concurrently
Procs == 1..MaxInFlight

\* The whole lifecycle of a challenge, from its creation, one request at a
\* time.
Next ==
  \/ \E p \in SeqProcs : Lifecycle(p)
  \/ \E a \in {"a1"} : assignAd(a) \/ markAdDisplayed(a)

Spec == Init /\ [][Next]_vars

\* ------------------------------------------------ concurrent start requests
\* A challenge whose join request was accepted: create, requestToJoin by u2,
\* (updateChallenge with a scheduledTime,) acceptRejectJoinRequest.
Startable(sched) ==
  [NoChallenge EXCEPT !.creator = "u1", !.opponent = "u2",
                      !.scheduledTime = sched,
                      !.status = IF sched THEN "scheduled" ELSE "pending"]

Accepted == {[inviter |-> "u2", invitee |-> "u1", status |-> "accepted"]}

InitStart ==
  /\ \E sched \in BOOLEAN : challenge = Startable(sched)
  /\ linked \in LinkedChoices
  /\ io = NoSockets
  /\ invitations = Accepted
  /\ reports = {}
  /\ ratings = {}
  /\ transactions = <<>>
  /\ earnings = [u \in Users |-> [totalEarnings |-> Rat(0), totalChallenges |-> 0]]
  /\ events = <<>>
  /\ clock = 0
  /\ h = [p \in 1..MaxInFlight |-> Idle]

NextStart ==
  \E p \in Procs :
    \/ startChallenge_begin(p) \/ startChallenge_provider(p)
    \/ startChallenge_save(p) \/ startChallenge_emit(p)
    \/ respond(p)

SpecStart == InitStart /\ [][NextStart]_vars

\* -------------------------------------------------- concurrent end requests
\* scores of the ratings given while the challenge was live
InitScores == {1, 3}

\* who rated whom
RatedPairs == {<<"u3", "u1">>, <<"u3", "u2">>, <<"u2", "u1">>}

\* the collections of Rating documents that requests made one after the
\* other leave: at most one per rater and rated participant
RatingSets ==
  {{[rater |-> k[1], competitorRated |-> k[2], score |-> f[k]] :
      k \in {x \in RatedPairs : f[x] # 0}} :
   f \in [RatedPairs -> {0} \cup InitScores]}

\* the rating summary of a collection, as submitRating stores and emits it
Summary(S) ==
  [cSum |-> SumScores({r \in S : r.competitorRated = "u1"}),
   cCnt |-> Cardinality({r \in S : r.competitorRated = "u1"}),
   oSum |-> SumScores({r \in S : r.competitorRated = "u2"}),
   oCnt |-> Cardinality({r \in S : r.competitorRated = "u2"})]

RECURSIVE RatingOrder(_)
RatingOrder(S) ==
  IF S = {} THEN <<>>
  ELSE LET r == CHOOSE x \in S : TRUE IN Append(RatingOrder(S \ {r}), r)

\* the events of a started challenge whose ratings S came in one by one
LiveEvents(S) ==
  LET order == RatingOrder(S)
      all == <<StatusChanged("live")>> \o
               [i \in 1..Len(order) |->
                  RatingsUpdate(Summary({order[k] : k \in 1..i}))]
      from == IF Len(all) > MaxEvents THEN Len(all) - MaxEvents + 1 ELSE 1
  IN  SubSeq(all, from, Len(all))

\* the challenge after startChallenge at time 1 and the ratings S
Live(S) ==
  LET started == StartedChallenge(Startable(FALSE), 1)
  IN  IF S = {} THEN started
      ELSE [started EXCEPT
              !.creatorRatingSum = Summary(S).cSum,
              !.creatorRatingCount = Summary(S).cCnt,
              !.opponentRatingSum = Summary(S).oSum,
              !.opponentRatingCount = Summary(S).oCnt,
              !.totalRatings = Summary(S).cCnt + Summary(S).oCnt]

AdStates == {"none", "pending", "displayed", "rejected"}

InitEnd ==
  /\ \E S \in RatingSets, ads \in [Ads -> AdStates] :
       /\ ratings = S
       /\ challenge =
            [Live(S) EXCEPT
               !.advertisements = ads,
               !.rejectedBy = [a \in Ads |->
                  IF ads[a] = "rejected" THEN "u1" ELSE NoUser]]
       /\ events = LiveEvents(S)
  /\ linked = Users
  /\ io = NoSockets
  /\ invitations = Accepted
  /\ reports = {}
  /\ transactions = <<>>
  /\ earnings = [u \in Users |-> [totalEarnings |-> Rat(0), totalChallenges |-> 0]]
  /\ clock = 1
  /\ h = [p \in 1..MaxInFlight |-> Idle]

NextEnd ==
  \E p \in Procs :
    \/ endChallenge_begin(p) \/ endChallenge_findCreatorRatings(p)
    \/ endChallenge_findOpponentRatings(p) \/ endChallenge_save(p)
    \/ endChallenge_creatorTransaction(p) \/ endChallenge_creatorEarnings(p)
    \/ endChallenge_opponentTransaction(p) \/ endChallenge_opponentEarnings(p)
    \/ endChallenge_emit(p)
    \/ respond(p)

SpecEnd == InitEnd /\ [][NextEnd]_vars

\* ------------------------------------------------- the revenue computation
\* total revenues and rating sums an endChallenge handler may have read
RevenueInputs == {0, 50, 100, 1000}
SumInputs == {0, 1, 3, 9, 30, 70}

\* an endChallenge handler that has its revenue and its two rating sums and
\* is about to compute the shares
InitRevenue ==
  /\ challenge = Live({})
  /\ ratings = {}
  /\ events = LiveEvents({})
  /\ linked = Users
  /\ io = NoSockets
  /\ invitations = Accepted
  /\ reports = {}
  /\ transactions = <<>>
  /\ earnings = [u \in Users |-> [totalEarnings |-> Rat(0), totalChallenges |-> 0]]
  /\ clock = 1
  /\ \E total \in RevenueInputs, c \in SumInputs, o \in SumInputs :
       h = [p \in 1..MaxInFlight |->
              IF p = 1
              THEN [Req("endChallenge", "u1", NoUser, "-", total) EXCEPT
                      !.pc = "distribute", !.doc = Live({}),
                      !.cSum = c, !.oSum = o]
              ELSE Idle]

\* platformShare, competitorsShare, the percentages and the two revenues,
\* as endChallenge assigns them to the document
distributeRevenue(p) ==
  /\ At(p, "endChallenge", "distribute")
  /\ h' = [h EXCEPT ![p] =
       [h[p] EXCEPT
          !.pc = "distributed",
          !.doc = [h[p].doc EXCEPT
                     !.totalRevenue = h[p].score,
                     !.revenueDistribution =
                        Distribution(h[p].score, h[p].cSum, h[p].oSum)]]]
  /\ UNCHANGED <<store, events, clock>>

NextRevenue == \E p \in SeqProcs : distributeRevenue(p)

SpecRevenue == InitRevenue /\ [][NextRevenue]_vars

\* ------------------------------------------------------------ rating requests
\* a challenge that has just gone live
InitRating ==
  /\ challenge = Live({})
  /\ ratings = {}
  /\ events = LiveEvents({})
  /\ linked = Users
  /\ io = NoSockets
  /\ invitations = Accepted
  /\ reports = {}
  /\ transactions = <<>>
  /\ earnings = [u \in Users |-> [totalEarnings |-> Rat(0), totalChallenges |-> 0]]
  /\ clock = 1
  /\ h = [p \in 1..MaxInFlight |-> Idle]

RatingSteps(p) ==
  \/ submitRating_findExisting(p)
  \/ submitRating_saveRating(p) \/ submitRating_createRating(p)
  \/ submitRating_findCreatorRatings(p) \/ submitRating_findOpponentRatings(p)
  \/ submitRating_saveChallenge(p) \/ submitRating_emit(p)
  \/ respond(p)

\* ratings submitted one after the other
NextRatingSeq ==
  \E p \in SeqProcs : submitRating_begin(p) \/ RatingSteps(p)

SpecRatingSeq == InitRating /\ [][NextRatingSeq]_vars

\* ratings of the creator submitted concurrently
NextRating ==
  \E p \in Procs :
    submitRating_request(p, Creators, InitScores) \/ RatingSteps(p)

SpecRating == InitRating /\ [][NextRating]_vars

\* --------------------------------------------- ratings and the status
\* the challenge in each of its statuses, with the events and the time that
\* lead there: accepted (pending or scheduled), cancelled, live, and ended
\* with neither ads nor ratings
Ended ==
  CompletedChallenge([doc |-> Live({}), score |-> 2, cSum |-> 0, oSum |-> 0])

StatusStates ==
  {[c |-> Startable(FALSE), ev |-> <<>>, clk |-> 0],
   [c |-> Startable(TRUE), ev |-> <<>>, clk |-> 0],
   [c |-> [Startable(FALSE) EXCEPT !.status = "cancelled"], ev |-> <<>>, clk |-> 0],
   [c |-> Live({}), ev |-> LiveEvents({}), clk |-> 1],
   [c |-> Ended, ev |-> Emit2(LiveEvents({}), StatusChanged("completed")), clk |-> 2]}

InitGuard ==
  /\ \E st \in StatusStates :
       /\ challenge = st.c
       /\ events = st.ev
       /\ clock = st.clk
  /\ ratings = {}
  /\ linked = Users
  /\ io = NoSockets
  /\ invitations = Accepted
  /\ reports = {}
  /\ transactions = <<>>
  /\ earnings = [u \in Users |-> [totalEarnings |-> Rat(0), totalChallenges |-> 0]]
  /\ h = [p \in 1..MaxInFlight |-> Idle]

NextGuard ==
  \E p \in SeqProcs :
    submitRating_begin(p) \/ addRating(p) \/ RatingSteps(p)

SpecGuard == InitGuard /\ [][NextGuard]_vars

\* ------------------------------------------------------- deleting ratings
\* a live challenge with the ratings S
InitDelete ==
  /\ \E S \in RatingSets :
       /\ ratings = S
       /\ challenge = Live(S)
       /\ events = LiveEvents(S)
  /\ linked = Users
  /\ io = NoSockets
  /\ invitations = Accepted
  /\ reports = {}
  /\ transactions = <<>>
  /\ earnings = [u \in Users |-> [totalEarnings |-> Rat(0), totalChallenges |-> 0]]
  /\ clock = 1
  /\ h = [p \in 1..MaxInFlight |-> Idle]

NextDelete ==
  \E p \in SeqProcs :
    \/ deleteRating_begin(p) \/ deleteRating_deleteOne(p)
    \/ deleteRating_findRemaining(p) \/ deleteRating_findChallenge(p)
    \/ respond(p)

SpecDelete == InitDelete /\ [][NextDelete]_vars

\* ------------------------------------------------ accepting a join request
\* a challenge that was given a scheduled time after its creation, with the
\* join request of u2 waiting for the creator
InitJoin ==
  /\ challenge = [NoChallenge EXCEPT !.creator = "u1", !.status = "pending",
                                     !.scheduledTime = TRUE]
  /\ linked = Users
  /\ io = NoSockets
  /\ invitations = {[inviter |-> "u2", invitee |-> "u1", status |-> "pending"]}
  /\ reports = {}
  /\ ratings = {}
  /\ transactions = <<>>
  /\ earnings = [u \in Users |-> [totalEarnings |-> Rat(0), totalChallenges |-> 0]]
  /\ events = <<>>
  /\ clock = 0
  /\ h = [p \in 1..MaxInFlight |-> Idle]

\* acceptances and starts whose handlers overlap
NextJoin ==
  \E p \in Procs :
    \/ acceptRejectJoinRequest_begin(p) \/ acceptRejectJoinRequest_findInvitation(p)
    \/ acceptRejectJoinRequest_saveChallenge(p)
    \/ acceptRejectJoinRequest_saveInvitation(p)
    \/ startChallenge_begin(p) \/ startChallenge_provider(p)
    \/ startChallenge_save(p) \/ startChallenge_emit(p)
    \/ respond(p)

SpecJoin == InitJoin /\ [][NextJoin]_vars

\* --------------------------------------- two ratings, one after the other
\* each slot takes one request: the request of slot 1 is submitted first
NextOrder ==
  \E p \in Procs :
    \/ submitRating_request(p, Creators, InitScores)
    \/ submitRating_findExisting(p)
    \/ submitRating_saveRating(p) \/ submitRating_createRating(p)
    \/ submitRating_findCreatorRatings(p) \/ submitRating_findOpponentRatings(p)
    \/ submitRating_saveChallenge(p) \/ submitRating_emit(p)

SpecOrder == InitRating /\ [][NextOrder]_vars

\* ------------------------------------------- viewers of a live challenge
NextRoom ==
  \E s \in Sockets :
    \/ connection(s) \/ join_challenge(s) \/ leave_challenge(s)
    \/ disconnect(s) \/ relay(s) \/ viewer_count_update

SpecRoom == InitRating /\ [][NextRoom]_vars

\* ------------------------------------------------ advertisements of a live challenge
\* A challenge that has just gone live; ads are assigned, displayed and
\* rejected while it is ended.
Ending(p) ==
  \/ endChallenge_begin(p) \/ endChallenge_findCreatorRatings(p)
  \/ endChallenge_findOpponentRatings(p) \/ endChallenge_save(p)
  \/ endChallenge_creatorTransaction(p) \/ endChallenge_creatorEarnings(p)
  \/ endChallenge_opponentTransaction(p) \/ endChallenge_opponentEarnings(p)
  \/ endChallenge_emit(p)

\* the ad that is scheduled, shown and rejected
ShownAds == {"a1"}

Rejecting(p) ==
  \/ rejectAdvertisement_request(p, ShownAds) \/ rejectAdvertisement_save(p)
  \/ rejectAdvertisement_emit(p)

NextAds ==
  \/ \E p \in Procs : Ending(p) \/ Rejecting(p) \/ respond(p)
  \/ \E a \in ShownAds : assignAd(a) \/ markAdDisplayed(a)

SpecAds == InitRating /\ [][NextAds]_vars

\* ------------------------------------------- ratings of an ended challenge
\* one endChallenge at a time, while ratings are deleted and ads are shown
NextFreeze ==
  \/ \E p \in SeqProcs : Ending(p)
  \/ \E p \in Procs :
       \/ deleteRating_begin(p) \/ deleteRating_deleteOne(p)
       \/ deleteRating_findRemaining(p) \/ deleteRating_findChallenge(p)
       \/ respond(p)
  \/ \E a \in ShownAds : assignAd(a) \/ markAdDisplayed(a)

SpecFreeze == InitDelete /\ [][NextFreeze]_vars

\* ===================================================== properties: lifecycle
\* the status graph: pending/scheduled -> live -> completed and
\* pending/scheduled -> cancelled, from the creation of the document
GraphEdges ==
  ({"absent"} \X {"pending", "scheduled"})
    \cup ({"pending", "scheduled"} \X {"pending", "scheduled", "live", "cancelled"})
    \cup {<<"live", "completed">>}

\* C1: the status of a challenge only moves along the graph: a challenge that
\* has been live is never pending or scheduled again, and a completed or
\* cancelled challenge never changes its status again.
C1_StatusGraph ==
  [][challenge'.status # challenge.status
       => <<challenge.status, challenge'.status>> \in GraphEdges]_vars

\* an endChallenge handler that has saved the challenge and is still writing
InCommit(p) ==
  /\ h[p].op = "endChallenge"
  /\ h[p].pc \in {"creatorTransaction", "creatorEarnings",
                  "opponentTransaction", "opponentEarnings", "emit"}

Begins(p, op) == h[p].pc = "idle" /\ h'[p].op = op

Fails(p, code) == h'[p].pc = "respond" /\ h'[p].code = code

StoreUnchanged == UNCHANGED <<store, events>>

\* C6: cancelChallenge goes through only for the creator or an admin and only
\* when the challenge is neither live nor completed; on a live or completed
\* challenge it fails with CANNOT_CANCEL, and for any other caller it fails
\* with FORBIDDEN and changes nothing.
C6_CancelGuards ==
  [][\A p \in Procs :
       (Begins(p, "cancelChallenge") /\ challenge.status # "absent") =>
         LET u == h'[p].user
             allowed == u = challenge.creator \/ u \in Admins
         IN  /\ h'[p].pc = "save"
                  => allowed /\ challenge.status \notin {"live", "completed"}
             /\ (allowed /\ challenge.status \in {"live", "completed"})
                  => Fails(p, "CANNOT_CANCEL") /\ StoreUnchanged
             /\ ~allowed
                  => Fails(p, "FORBIDDEN") /\ StoreUnchanged]_vars

\* C7: endChallenge by a participant on a challenge that is pending,
\* scheduled, completed or cancelled fails with NOT_LIVE and leaves the
\* challenge, the transactions and the earnings unchanged; by anyone who is
\* not a participant it fails with NOT_PARTICIPANT.
C7_EndGuards ==
  [][\A p \in Procs :
       (Begins(p, "endChallenge") /\ challenge.status # "absent") =>
         LET u == h'[p].user
             participant == u \in {challenge.creator, challenge.opponent}
         IN  /\ (participant /\ challenge.status # "live")
                  => Fails(p, "NOT_LIVE") /\ StoreUnchanged
             /\ ~participant
                  => Fails(p, "NOT_PARTICIPANT") /\ StoreUnchanged]_vars

\* an endChallenge call on a completed challenge was turned down
C7_Witness ==
  \E p \in Procs :
    /\ h[p].op = "endChallenge" /\ h[p].pc = "respond"
    /\ h[p].code = "NOT_LIVE"
    /\ h[p].user = challenge.opponent
    /\ challenge.status = "completed"
    /\ Len(transactions) = 2

\* ========================================================= properties: start
\* C3: of the startChallenge calls in flight on a startable challenge exactly
\* one goes through: no call commits on a challenge that is already live, and
\* a call by a participant that finds the challenge live fails with
\* ALREADY_LIVE and changes nothing.
C3_OneStartWins ==
  [][\A p \in Procs :
       /\ (h[p].op = "startChallenge" /\ h[p].pc = "save" /\ h'[p].pc = "emit")
            => challenge.status # "live"
       /\ (Begins(p, "startChallenge") /\ challenge.status = "live"
             /\ h'[p].user \in {challenge.creator, challenge.opponent})
            => Fails(p, "ALREADY_LIVE") /\ StoreUnchanged]_vars

\* the challenge as it was before any startChallenge call
NotStarted ==
  /\ challenge.status \in {"pending", "scheduled"}
  /\ challenge.startedAt = 0
  /\ challenge.creatorBroadcast = 0 /\ challenge.opponentBroadcast = 0
  /\ events = <<>>

\* C5: a startChallenge call that fails writes nothing and emits nothing: the
\* step that produces the failure leaves the store and the room untouched,
\* and as long as no call got its broadcasts the challenge is in its prior
\* state, with no status event.
C5_FailedStartLeavesNoTrace ==
  /\ [][\A p \in Procs :
          (h[p].pc # "respond" /\ h'[p].op = "startChallenge"
             /\ h'[p].pc = "respond" /\ h'[p].code # "OK")
            => StoreUnchanged]_vars
  /\ [](clock = 0 => NotStarted)

\* a startChallenge call failed at the streaming provider
C5_Witness ==
  \E p \in Procs :
    /\ h[p].op = "startChallenge" /\ h[p].pc = "respond"
    /\ h[p].code = "YOUTUBE_API_ERROR"
    /\ clock = 0 /\ NotStarted

\* =========================================================== properties: end
\* the transaction of a role with the amount the challenge records for it
Paid(role) ==
  \E i \in 1..Len(transactions) :
    /\ transactions[i].competitorRole = role
    /\ transactions[i].amount = challenge.revenueDistribution[role]

\* C4: endChallenge is all-or-nothing: once no call is in the middle of its
\* writes, a completed challenge has the transaction of every positive share,
\* and a challenge that is still live has no distribution and no transaction.
C4_AllOrNothing ==
  (\A p \in Procs : ~InCommit(p)) =>
    /\ challenge.status = "completed" =>
         \A role \in {"creator", "opponent"} :
           RPos(challenge.revenueDistribution[role]) => Paid(role)
    /\ challenge.status = "live" =>
         /\ transactions = <<>>
         /\ challenge.revenueDistribution = ZeroDistribution

\* C10: the recorded distribution adds up: platform + creator + opponent is
\* the total revenue, platform is 20% of it and creator + opponent 80%.
C10_SharesAddUp ==
  challenge.status = "completed" =>
    LET d == challenge.revenueDistribution
        total == challenge.totalRevenue
    IN  /\ RAdd(RAdd(d.platform, d.creator), d.opponent) = Norm(total, 1)
        /\ d.platform = Norm(total, 5)
        /\ RAdd(d.creator, d.opponent) = Norm(4 * total, 5)

\* a revenue of 150 was split unevenly between the two participants
C10_Witness ==
  /\ challenge.status = "completed"
  /\ challenge.totalRevenue = 150
  /\ RPos(challenge.revenueDistribution.creator)
  /\ RPos(challenge.revenueDistribution.opponent)
  /\ challenge.revenueDistribution.creator # challenge.revenueDistribution.opponent

\* ======================================================= properties: ratings
\* the sum of the scores the raters last gave to a participant
LatestSum(who) == SumScores({r \in ratings : r.competitorRated = who})

\* the raters of a participant
RatersOf(who) == {r.rater : r \in {x \in ratings : x.competitorRated = who}}

\* the stored aggregates of the challenge are those of its rating records
AggregatesMatch ==
  /\ challenge.creatorRatingSum = LatestSum(challenge.creator)
  /\ challenge.creatorRatingCount = Cardinality(RatersOf(challenge.creator))
  /\ challenge.opponentRatingSum = LatestSum(challenge.opponent)
  /\ challenge.opponentRatingCount = Cardinality(RatersOf(challenge.opponent))

NoRatingInFlight == \A p \in Procs : h[p].pc \in {"idle", "respond"}

\* C8: with submitRating calls made one after the other, the stored sum of a
\* participant is the sum over the distinct raters of the score each gave
\* last and the count is the number of distinct raters; a resubmission moves
\* the sum by newScore - oldScore and leaves the count as it was.
C8_SequentialAggregates ==
  /\ NoRatingInFlight => AggregatesMatch
  /\ \A p \in Procs :
       /\ (h[p].op = "submitRating" /\ h[p].pc = "respond" /\ h[p].code = "OK")
            => \E r \in ratings :
                 /\ r.rater = h[p].user /\ r.competitorRated = h[p].target
                 /\ r.score = h[p].score
                 /\ Existing(h[p].user, h[p].target) = {r}
       /\ (h[p].op = "submitRating" /\ h[p].pc = "emit" /\ h[p].prior # 0)
            => LET was == h[p].doc
                   delta == h[p].score - h[p].prior
               IN  IF h[p].target = challenge.creator
                   THEN /\ challenge.creatorRatingSum = was.creatorRatingSum + delta
                        /\ challenge.creatorRatingCount = was.creatorRatingCount
                        /\ challenge.opponentRatingSum = was.opponentRatingSum
                        /\ challenge.opponentRatingCount = was.opponentRatingCount
                   ELSE /\ challenge.opponentRatingSum = was.opponentRatingSum + delta
                        /\ challenge.opponentRatingCount = was.opponentRatingCount
                        /\ challenge.creatorRatingSum = was.creatorRatingSum
                        /\ challenge.creatorRatingCount = was.creatorRatingCount

\* the second rater of the creator has raised a score of 1 to 3
C8_Witness ==
  \E p \in Procs :
    /\ h[p].op = "submitRating" /\ h[p].pc = "emit"
    /\ h[p].target = challenge.creator
    /\ h[p].prior = 1 /\ h[p].score = 3
    /\ challenge.creatorRatingCount = 2
    /\ challenge.creatorRatingSum = LatestSum(challenge.creator)

\* submitRating calls of different raters for one participant have all
\* gone through, and their replies are on their way
BothRated ==
  /\ \A p \in Procs :
       h[p].op = "submitRating" /\ h[p].pc = "respond" /\ h[p].code = "OK"
  /\ \A p, q \in Procs :
       p # q => h[p].user # h[q].user /\ h[p].target = h[q].target

\* C9: concurrent submitRating calls from different raters for the same
\* participant lose no update: once they are over, the count of the
\* participant is the number of its raters and the sum is the sum of their
\* scores.
C9_NoLostUpdate ==
  BothRated => AggregatesMatch

\* ======================================================= properties: revenue
\* the handler in slot p has computed the shares of the inputs it read
Distributed(p, total, c, o) ==
  /\ h[p].op = "endChallenge" /\ h[p].pc = "distributed"
  /\ h[p].score = total /\ h[p].cSum = c /\ h[p].oSum = o

Shares(platform, creator, opponent) ==
  [platform |-> <<platform, 1>>, creator |-> <<creator, 1>>,
   opponent |-> <<opponent, 1>>]

\* C11: with a total score above 0 the creator's share is
\* competitorsShare * creator.sum / totalScore and the opponent's share is
\* competitorsShare minus the creator's share; 100 with sums 9 and 3 gives
\* 20 / 60 / 20, and 1000 with sums 70 and 30 gives 200 / 560 / 240.
C11_SharesByScore ==
  \A p \in Procs :
    (h[p].op = "endChallenge" /\ h[p].pc = "distributed"
       /\ h[p].cSum + h[p].oSum > 0) =>
      LET d == h[p].doc.revenueDistribution
          total == h[p].score
          totalScore == h[p].cSum + h[p].oSum
          competitors == Norm(4 * total, 5)
      IN  /\ d.creator = Norm(4 * total * h[p].cSum, 5 * totalScore)
          /\ RAdd(d.creator, d.opponent) = competitors
          /\ Distributed(p, 100, 9, 3) => d = Shares(20, 60, 20)
          /\ Distributed(p, 1000, 70, 30) => d = Shares(200, 560, 240)

\* the shares of 1000 with rating sums 70 and 30 have been computed
C11_Witness ==
  \E p \in Procs :
    /\ Distributed(p, 1000, 70, 30)
    /\ h[p].doc.revenueDistribution.creator = <<560, 1>>

\* C12: with a total score of 0 the creator and the opponent each get exactly
\* competitorsShare / 2; a total revenue of 50 gives 10 / 20 / 20.
C12_EvenSplit ==
  \A p \in Procs :
    (h[p].op = "endChallenge" /\ h[p].pc = "distributed"
       /\ h[p].cSum = 0 /\ h[p].oSum = 0) =>
      LET d == h[p].doc.revenueDistribution
          total == h[p].score
      IN  /\ d.creator = Norm(4 * total, 10)
          /\ d.opponent = Norm(4 * total, 10)
          /\ Distributed(p, 50, 0, 0) => d = Shares(10, 20, 20)

\* the shares of 50 with no ratings have been computed
C12_Witness ==
  \E p \in Procs :
    /\ Distributed(p, 50, 0, 0)
    /\ h[p].doc.revenueDistribution.opponent = <<20, 1>>

\* ================================================ properties: advertisements
\* the paid amount of an ad if it is in the set
PaidIn(T, a) == IF a \in T THEN PaidAmount(a) ELSE 0

C14_RejectedExcluded ==
  /\ [](\E T \in SUBSET {a \in Ads : challenge.advertisements[a] # "rejected"} :
          challenge.totalRevenue = PaidIn(T, "a1") + PaidIn(T, "a2"))
  /\ [][\A a \in Ads :
          challenge.advertisements[a] = "rejected"
            => challenge'.advertisements[a] # "displayed"]_vars

\* C15: rejectAdvertisement goes through only on a live challenge, for a
\* binding that is assigned or displayed, and for a participant; in every
\* other case it fails and leaves the binding's status and rejectedBy as
\* they were.
C15_RejectGuards ==
  [][\A p \in Procs :
       (Begins(p, "rejectAdvertisement") /\ challenge.status # "absent") =>
         IF h'[p].pc = "save"
         THEN /\ challenge.status = "live"
              /\ challenge.advertisements[h'[p].choice] \in {"pending", "displayed"}
              /\ h'[p].user \in {challenge.creator, challenge.opponent}
         ELSE h'[p].pc = "respond" /\ h'[p].code # "OK" /\ StoreUnchanged]_vars

\* ============================================== properties: rating guards
\* C16: submitRating fails with NOT_LIVE whenever the challenge is not live,
\* and then no Rating record is created or modified and no accumulator of
\* the challenge changes.
C16_RatingNeedsLive ==
  [][\A p \in Procs :
       ((Begins(p, "submitRating") \/ Begins(p, "addRating"))
          /\ challenge.status \notin {"absent", "live"})
         => Fails(p, "NOT_LIVE") /\ StoreUnchanged]_vars

\* a rating for a completed challenge was turned down
C16_Witness ==
  \E p \in Procs :
    /\ h[p].op = "submitRating" /\ h[p].pc = "respond"
    /\ h[p].code = "NOT_LIVE"
    /\ challenge.status = "completed"
    /\ ratings = {}

\* C17: submitRating fails with SelfRating whenever the rater is the creator
\* or the opponent of the challenge, so no Rating record has a participant
\* of its challenge as its rater.
C17_NoSelfRating ==
  \A r \in ratings : r.rater \notin {challenge.creator, challenge.opponent}

\* C18: under any interleaving of submitRating calls there is at most one
\* Rating record per rater and rated participant, and a resubmission
\* overwrites the record instead of adding one.
C18_OneRecordPerRater ==
  /\ [](\A r1, r2 \in ratings :
          (r1.rater = r2.rater /\ r1.competitorRated = r2.competitorRated)
            => r1 = r2)
  /\ [][\A p \in Procs :
          (h[p].op = "submitRating" /\ h[p].pc = "saveRating"
             /\ h'[p].pc # "saveRating")
            => Cardinality(ratings') = Cardinality(ratings)]_vars

\* of two first submissions of one rater the second insert was refused
C18_Witness ==
  \E p \in Procs :
    /\ h[p].op = "submitRating" /\ h[p].pc = "respond"
    /\ h[p].code = "DUPLICATE_FIELD"
    /\ Cardinality(Existing(h[p].user, h[p].target)) = 1

\* C19: deleteRating by the rating's own rater or by an administrator
\* removes the record, lowers the sum of the rated participant by the score
\* and the count by 1 and re-emits ratings_update; for anyone else it is
\* refused and neither the record nor the accumulators change.
C19_DeleteInverse ==
  \A p \in Procs :
    (h[p].op = "deleteRating" /\ h[p].pc = "respond"
       /\ h[p].code # "RATING_NOT_FOUND") =>
      IF h[p].user = h[p].choice \/ h[p].user \in Admins
      THEN /\ h[p].code = "OK"
           /\ Existing(h[p].choice, h[p].target) = {}
           /\ AggregatesMatch
           /\ events # <<>> /\ events[Len(events)].type = "ratings_update"
      ELSE /\ h[p].code = "FORBIDDEN"
           /\ Existing(h[p].choice, h[p].target) # {}
           /\ AggregatesMatch

\* ============================================== properties: viewers
\* C20: every successful join of a viewer to the room of a challenge raises
\* the viewerCount of the room by exactly 1, and viewer_joined with the new
\* count is delivered to all members of the room; also for a viewer that
\* joins a room it is already in and for one user on several sockets.
C20_JoinAddsOne ==
  [][\A s \in Sockets :
       join_challenge(s) =>
         /\ Cardinality(io'.room) = Cardinality(io.room) + 1
         /\ io'.log[Len(io'.log)] =
              [type |-> "viewer_joined",
               viewerCount |-> Cardinality(io.room) + 1,
               user |-> UserOf(s), to |-> io'.room]]_vars

\* C21: whenever a viewer leaves the room of a challenge, by an explicit
\* leave or by a closed connection, the viewer is removed, viewerCount drops
\* by 1 and viewer_left with the new count is emitted to the members that
\* remain.
C21_LeaveEmits ==
  [][\A s \in Sockets :
       ((leave_challenge(s) \/ disconnect(s)) /\ s \in io.room) =>
         /\ io'.room = io.room \ {s}
         /\ io'.log # <<>>
         /\ io'.log[Len(io'.log)] = RoomEvent("viewer_left", s, io.room \ {s})]_vars

\* ================================================ properties: transactions
\* C24: every successful endChallenge produces exactly two Transaction
\* records, one of role creator and one of role opponent, also when a share
\* is 0.
C24_TwoTransactions ==
  \A p \in Procs :
    (h[p].op = "endChallenge" /\ h[p].pc = "respond" /\ h[p].code = "OK") =>
      \A role \in {"creator", "opponent"} :
        Cardinality({i \in 1..Len(transactions) :
                       transactions[i].competitorRole = role}) = 1

C26_NoOpponentNoStart ==
  /\ [](challenge.status \in {"live", "completed"}
          => challenge.opponent # NoUser /\ challenge.startedAt # 0)
  /\ [][\A p \in Procs :
          (Begins(p, "startChallenge") /\ challenge.status # "absent"
             /\ IsCreator(challenge, h'[p].user)
             /\ challenge.opponent = NoUser)
            => Fails(p, "NO_OPPONENT") /\ StoreUnchanged]_vars

\* the creator tried to start a challenge nobody has joined
C26_Witness ==
  \E p \in Procs :
    /\ h[p].op = "startChallenge" /\ h[p].pc = "respond"
    /\ h[p].code = "NO_OPPONENT"
    /\ challenge.status \in {"pending", "scheduled"}
    /\ challenge.opponent = NoUser

\* C29: once the challenge has an opponent, no later acceptance of a join
\* request replaces the opponent or resets the status; at most one join
\* request is ever accepted.
C29_OpponentKept ==
  /\ [](Cardinality({i \in invitations : i.status = "accepted"}) <= 1)
  /\ [][challenge.opponent # NoUser =>
          /\ challenge'.opponent = challenge.opponent
          /\ challenge.status \in {"live", "completed", "cancelled"}
               => challenge'.status \notin {"pending", "scheduled"}]_vars

\* C30: once concurrent submitRating calls are over, the last ratings_update
\* emitted to the room carries the sums and counts of the Rating records
\* then stored.
C30_LastUpdateFresh ==
  BothRated =>
    LET e == events[Len(events)]
    IN  /\ e.type = "ratings_update"
        /\ e.cSum = LatestSum(challenge.creator)
        /\ e.cCnt = Cardinality(RatersOf(challenge.creator))
        /\ e.oSum = LatestSum(challenge.opponent)
        /\ e.oCnt = Cardinality(RatersOf(challenge.opponent))

\* ================================================== properties: the room
\* C22: the room keeps a peakViewers value that never decreases and is
\* always at least the current viewerCount.
C22_PeakBound ==
  Cardinality(io.room) <= challenge.peakViewers

\* C23: within the room of a challenge the events are delivered in the
\* order in which the operations that caused them were submitted: of two
\* operations submitted as A then B, B's event is never delivered before A's.
C23_SubmissionOrder ==
  [][~(/\ h[1].op = "submitRating" /\ h[1].pc = "emit"
       /\ h'[1].pc = "respond"
       /\ h[2].op = "submitRating" /\ h[2].pc = "respond"
       /\ h[2].code = "OK")]_vars

\* C27: ratings are frozen from the moment endChallenge computes the
\* revenue: no Rating record is created, changed or removed while the
\* computed shares are being stored or after the challenge is completed.
C27_RatingsFrozen ==
  [][(\/ challenge.status = "completed"
      \/ \E p \in Procs : h[p].op = "endChallenge" /\ h[p].pc = "save")
       => ratings' = ratings]_vars

\* C28: every challenge_status_changed event the room receives reports a
\* status the challenge has committed, and every ad_rejected event a
\* rejection that is stored; no client can make the room receive another.
C28_EventsCommitted ==
  \A i \in 1..Len(events) :
    /\ (events[i].type = "challenge_status_changed"
          /\ events[i].status = "live") => challenge.startedAt # 0
    /\ (events[i].type = "challenge_status_changed"
          /\ events[i].status = "completed") => challenge.endedAt # 0
    /\ events[i].type = "ad_rejected"
         => challenge.advertisements[events[i].ad] = "rejected"

====
